---- MODULE Spec2Model ----
(***************************************************************************)
(* Model of the pointillism renderer of backend/algorithms/ronchetti.py    *)
(* together with the request handler of backend/app.py that calls it.      *)
(*                                                                         *)
(* Conventions.                                                            *)
(*  - A colour is a triple of 8-bit channels.  The decoded image is a      *)
(*    single scan line (height 1): a sequence of colours.  For such an     *)
(*    image the Scharr y-derivative vanishes, so every stroke is an        *)
(*    ellipse whose major axis is vertical and whose horizontal half-axis  *)
(*    is stroke_scale, whatever the gradient magnitude.                    *)
(*  - Floating point values are kept in fixed point: distances in units of *)
(*    1/DistUnit, probabilities in units of 1/ProbUnit.  NaN is a value of *)
(*    its own, produced by 0/0 and propagated by every operation on it.    *)
(*  - The module-level generator of Python's random module is one shared   *)
(*    variable, rng; every draw reads it and advances it.                  *)
(***************************************************************************)
EXTENDS Integers, Sequences, FiniteSets, TLC

\* ------------------------------------------------------------------ bounds
MaxW == 3
MaxK == 2
MaxS == 2
\* the calls of randomized_grid and color_select checked on their own
MaxH == 3
MaxGridScale == 3
MaxCum == 3
MaxLen == 3
\* resolution of the fixed-point values and period of the generator
DistUnit == 16
ProbUnit == 1000
RngPeriod == 8
MaxBatch == 2

\* ------------------------------------------------------- integer helpers
Max2(a, b) == IF a >= b THEN a ELSE b
Min2(a, b) == IF a <= b THEN a ELSE b
Abs(a) == IF a < 0 THEN -a ELSE a

\* a/b rounded to the nearest integer, for a >= 0 and b > 0
RoundDiv(a, b) == (2 * a + b) \div (2 * b)

\* ceil(a/b) for a >= 0 and b > 0
CeilDiv(a, b) == (a + b - 1) \div b

\* the remainder that keeps the sign of a, as C's % does
PyModTruncated(a, b) == IF a < 0 THEN 0 - ((0 - a) % b) ELSE a % b

\* Python's a % b for b > 0: the result has the sign of b
PyMod(a, b) == a % b

\* floor(sqrt(n)), one result bit at a time
RECURSIVE IsqrtBits(_, _, _)
IsqrtBits(n, r, bit) ==
    IF bit = 0 THEN r
    ELSE IF (r + bit) * (r + bit) <= n
         THEN IsqrtBits(n, r + bit, bit \div 2)
         ELSE IsqrtBits(n, r, bit \div 2)

Isqrt(n) == IsqrtBits(n, 0, 16384)

RECURSIVE SumSeq(_)
SumSeq(s) == IF s = <<>> THEN 0 ELSE Head(s) + SumSeq(Tail(s))

RECURSIVE MaxSeq(_)
MaxSeq(s) == IF Len(s) = 1 THEN s[1] ELSE Max2(Head(s), MaxSeq(Tail(s)))

RECURSIVE Concat(_)
Concat(ss) == IF ss = <<>> THEN <<>> ELSE Head(ss) \o Concat(Tail(ss))

\* ------------------------------------------------------------- colours
Black == <<0, 0, 0>>
Rust == <<200, 40, 20>>
PixelColours == {Black, Rust}

\* cv2.COLOR_RGB2BGR and cv2.COLOR_BGR2RGB: the channel order reversed
SwapRB(c) == <<c[3], c[2], c[1]>>

\* OpenCV's 8-bit BGR -> HSV_FULL (hue range 256), in its fixed-point form
HsvShift == 4096
SdivTable(v) == IF v = 0 THEN 0 ELSE RoundDiv(255 * HsvShift, v)
HdivTable(d) == IF d = 0 THEN 0 ELSE RoundDiv(256 * HsvShift, 6 * d)

BGR2HSV_FULL(c) ==
    LET b == c[1]
        g == c[2]
        r == c[3]
        v == Max2(b, Max2(g, r))
        vmin == Min2(b, Min2(g, r))
        diff == v - vmin
        s == (diff * SdivTable(v) + 2048) \div HsvShift
        h0 == IF v = r THEN g - b
              ELSE IF v = g THEN b - r + 2 * diff
              ELSE r - g + 4 * diff
        h1 == (h0 * HdivTable(diff) + 2048) \div HsvShift
        h2 == IF h1 < 0 THEN h1 + 256 ELSE h1
    IN  <<Min2(h2, 255), s, v>>

\* OpenCV's HSV_FULL -> BGR for 8-bit channels: the sector formula, each
\* output channel rounded to the nearest 8-bit value
HSV2BGR_FULL(c) ==
    LET h == c[1]
        s == c[2]
        v == c[3]
        sector == (h * 6) \div 256
        fn == (h * 6) % 256
        t0 == v
        t1 == RoundDiv(v * (255 - s), 255)
        t2 == RoundDiv(v * (65280 - s * fn), 65280)
        t3 == RoundDiv(v * (65280 - s * (256 - fn)), 65280)
    IN  IF s = 0 THEN <<v, v, v>>
        ELSE CASE sector = 0 -> <<t1, t3, t0>>
               [] sector = 1 -> <<t1, t0, t2>>
               [] sector = 2 -> <<t3, t0, t1>>
               [] sector = 3 -> <<t0, t2, t1>>
               [] sector = 4 -> <<t0, t1, t3>>
               [] OTHER      -> <<t2, t1, t0>>

\* ------------------------------------------------------------- regulate
\* uint8 array + Python int stays uint8: the sum wraps modulo 256
Uint8Add(c, d) == (c + d) % 256

Clip(x, lo, hi) == IF x < lo THEN lo ELSE IF x > hi THEN hi ELSE x

\* regulate(img, hue, saturation, luminosity) on one colour
\* lines 96-100 on the HSV triple of one colour: the hue offset made
\* non-negative and added in place, the other two channels added and clipped
regulateHSV(hsv, hue, saturation, luminosity) ==
    LET hue2 == IF hue < 0 THEN 255 + hue ELSE hue
    IN  <<Uint8Add(hsv[1], hue2),
          Clip(Uint8Add(hsv[2], saturation), 0, 255),
          Clip(Uint8Add(hsv[3], luminosity), 0, 255)>>

regulate(c, hue, saturation, luminosity) ==
    HSV2BGR_FULL(regulateHSV(BGR2HSV_FULL(c), hue, saturation, luminosity))

\* ---------------------------------------------------------- ColorPalette
\* a constructor that never takes the base length it is given
ColorPaletteOwnLength(colors, base_len) ==
    [colors |-> colors, base_len |-> Len(colors)]

\* ColorPalette.__init__
ColorPalette(colors, base_len) ==
    [colors |-> colors,
     base_len |-> IF base_len > 0 THEN base_len ELSE Len(colors)]

\* limit_size(img, 200): the ratio is 1.0 for every image of the model
\* (MaxW < 200), so the image is returned as it is
limit_size(image) == image

SqNorm(c) == c[1] * c[1] + c[2] * c[2] + c[3] * c[3]
AddC(a, b) == <<a[1] + b[1], a[2] + b[2], a[3] + b[3]>>

RECURSIVE Factorial(_)
Factorial(n) == IF n <= 1 THEN 1 ELSE n * Factorial(n - 1)

\* the sum of the integers f[i] over the indices i of s
RECURSIVE SumInts(_, _)
SumInts(s, f) ==
    IF s = {} THEN 0
    ELSE LET i == CHOOSE j \in s : \A k \in s : j <= k
         IN  f[i] + SumInts(s \ {i}, f)

\* the channel-wise sum of the colours f[i] over the indices i of s
RECURSIVE SumColours(_, _)
SumColours(s, f) ==
    IF s = {} THEN <<0, 0, 0>>
    ELSE LET i == CHOOSE j \in s : \A k \in s : j <= k
         IN  AddC(f[i], SumColours(s \ {i}, f))

\* Factorial(N) times the inertia of assignment a of data to n clusters
KMeansInertia(data, n, a) ==
    LET N == Len(data)
        members(c) == {i \in 1..N : a[i] = c}
        sq == [i \in 1..N |-> SqNorm(data[i])]
        cost(c) == LET m == members(c)
                       cnt == Cardinality(m)
                       tot == SumColours(m, data)
                   IN  (Factorial(N) \div cnt) * (cnt * SumInts(m, sq) - SqNorm(tot))
    IN  SumSeq([c \in 1..n |-> cost(c)])

\* KMeans(n_clusters=n, n_init=10, random_state=42).fit(data).cluster_centers_,
\* cast to uint8: the centroids of a least-inertia partition of data
\* into n non-empty clusters (a fixed seed: always the same partition)
KMeansCenters(data, n) ==
    LET N == Len(data)
        parts == {a \in [1..N -> 1..n] : \A c \in 1..n : \E i \in 1..N : a[i] = c}
        best == CHOOSE a \in parts :
                    \A b \in parts : KMeansInertia(data, n, a) <= KMeansInertia(data, n, b)
        centre(c) == LET m == {i \in 1..N : best[i] = c}
                         tot == SumColours(m, data)
                         cnt == Cardinality(m)
                     IN  <<tot[1] \div cnt, tot[2] \div cnt, tot[3] \div cnt>>
    IN  [c \in 1..n |-> centre(c)]

\* KMeans raises for n_clusters < 1 and for fewer samples than clusters
KMeansFits(data, n) == n >= 1 /\ n <= Len(data)

\* ColorPalette.from_image(img, n)
from_image(image, n) == ColorPalette(KMeansCenters(limit_size(image), n), 0)

\* the extensions create_pointillism passes to extend
Extensions == <<(<<0, 50, 0>>), (<<15, 30, 0>>), (<<0 - 15, 30, 0>>)>>

\* ColorPalette.extend(extensions)
extend(pal, extensions) ==
    LET variant(e) == [i \in 1..Len(pal.colors) |->
                          regulate(pal.colors[i], e[1], e[2], e[3])]
        blocks == <<pal.colors>> \o [k \in 1..Len(extensions) |-> variant(extensions[k])]
    IN  ColorPalette(Concat(blocks), pal.base_len)

\* ------------------------------------------------------------ the canvas
\* cv2.medianBlur(img, 11) on a scan line: per channel, the median of the
\* 11 pixels around x, the border pixels replicated
KSize == 11

MedianOf(vals) ==
    CHOOSE v \in {vals[i] : i \in 1..Len(vals)} :
        /\ Cardinality({i \in 1..Len(vals) : vals[i] < v}) <= Len(vals) \div 2
        /\ Cardinality({i \in 1..Len(vals) : vals[i] <= v}) > Len(vals) \div 2

medianBlur(image) ==
    LET W == Len(image)
        half == KSize \div 2
        window(x, ch) == [d \in 1..KSize |-> image[Clip(x + d - 1 - half, 1, W)][ch]]
    IN  [x \in 1..W |-> <<MedianOf(window(x, 1)), MedianOf(window(x, 2)), MedianOf(window(x, 3))>>]

\* Python's truth value: a non-zero number, a non-empty string
Truthy(v) == IF v.type = "int" THEN v.int # 0 ELSE v.str # ""

\* lines 267-270: the canvas the strokes are drawn on
BaseImage(image, use_median_blur) ==
    IF Truthy(use_median_blur) THEN medianBlur(image) ELSE image

\* cv2.LINE_AA: coverage (of 256) LineAA gives the pixel next to an edge
RimAlpha == 158

BlendChannel(old, new) == old + (((new - old) * RimAlpha + 127) \div 256)
Blend(old, new) ==
    <<BlendChannel(old[1], new[1]), BlendChannel(old[2], new[2]), BlendChannel(old[3], new[3])>>

\* the pixels of the scan line a stroke centred at column x (1-based)
\* overwrites, and those its anti-aliased outline blends into
SolidSpan(W, x, scale) == {i \in 1..W : Abs(i - x) <= scale}
RimSpan(W, x, scale) == {i \in 1..W : Abs(i - x) = scale + 1}

\* a stroke that is alpha-blended over its whole area
ellipseBlended(canvas, x, scale, color) ==
    [i \in 1..Len(canvas) |->
        IF i \in SolidSpan(Len(canvas), x, scale) \cup RimSpan(Len(canvas), x, scale)
        THEN Blend(canvas[i], color)
        ELSE canvas[i]]

\* cv2.ellipse(result, (x, y), (length, stroke_scale), angle, 0, 360,
\*             color, -1, cv2.LINE_AA) on a scan line
ellipse(canvas, x, scale, color) ==
    [i \in 1..Len(canvas) |->
        IF i \in SolidSpan(Len(canvas), x, scale) THEN color
        ELSE IF i \in RimSpan(Len(canvas), x, scale) THEN Blend(canvas[i], color)
        ELSE canvas[i]]

\* line 247: the automatic stroke scale
AutoStrokeScale(height, width) == CeilDiv(Max2(height, width), 1000)

\* ----------------------------------------------------- colour probabilities
NaN == 0 - 1

\* scipy's cdist for one pixel and one colour, in units of 1/DistUnit
Distance(a, b) ==
    Isqrt(((a[1] - b[1]) * (a[1] - b[1]) + (a[2] - b[2]) * (a[2] - b[2])
           + (a[3] - b[3]) * (a[3] - b[3])) * DistUnit * DistUnit)

\* e^(-n/4) in units of 1/acc0, for n >= 0
RECURSIVE ExpDecay(_, _)
ExpDecay(n, acc) ==
    IF n = 0 \/ acc = 0 THEN acc ELSE ExpDecay(n - 1, (acc * 7788) \div 10000)

\* line 182, distances /= summ: the quotient a/b is NaN when it is 0/0
\* (numpy warns and goes on); summ = 0 forces every a of the row to be 0
IsNaNQuotient(a, b) == a = 0 /\ b = 0

\* lines 176-180: maxima - distances for one pixel
Affinities(pixel, colors) ==
    LET dist == [i \in 1..Len(colors) |-> Distance(pixel, colors[i])]
        maxima == MaxSeq(dist)
    IN  [i \in 1..Len(colors) |-> maxima - dist[i]]

\* the row of compute_color_probabilities for one pixel: the cumulative
\* sums, in units of 1/ProbUnit, or NaN throughout when summ is zero
\* (exp, the second sum, the second division and cumsum all propagate NaN).
\* exp(k*P*x[i]) is kept relative to the largest of the row, which leaves
\* the normalised value distances[i]/summ of line 187 as it is.
ProbabilityRow(pixel, colors, k) ==
    LET P == Len(colors)
        aff == Affinities(pixel, colors)
        summ == SumSeq(aff)
        top == MaxSeq(aff)
        w == [i \in 1..P |->
                 ExpDecay((k * P * (top - aff[i]) * 4) \div summ, 100000)]
        total == SumSeq(w)
    IN  IF \E i \in 1..P : IsNaNQuotient(aff[i], summ)
        THEN [i \in 1..P |-> NaN]
        ELSE [i \in 1..P |-> (SumSeq(SubSeq(w, 1, i)) * ProbUnit) \div total]

\* compute_color_probabilities(pixels, palette, k)
compute_color_probabilities(pixels, pal, k) ==
    [i \in 1..Len(pixels) |-> ProbabilityRow(pixels[i], pal.colors, k)]

\* a < b on floats: false whenever either side is NaN
FloatLess(a, b) == a # NaN /\ b # NaN /\ a < b

\* bisect.bisect_left(a, x), 0-based result
RECURSIVE BisectLoop(_, _, _, _)
BisectLoop(a, x, lo, hi) ==
    IF lo < hi
    THEN LET mid == (lo + hi) \div 2
         IN  IF FloatLess(a[mid + 1], x)
             THEN BisectLoop(a, x, mid + 1, hi)
             ELSE BisectLoop(a, x, lo, mid)
    ELSE lo

\* bisect.bisect_right(a, x): the first index whose value is > x
RECURSIVE BisectRightLoop(_, _, _, _)
BisectRightLoop(a, x, lo, hi) ==
    IF lo < hi
    THEN LET mid == (lo + hi) \div 2
         IN  IF FloatLess(x, a[mid + 1])
             THEN BisectRightLoop(a, x, lo, mid)
             ELSE BisectRightLoop(a, x, mid + 1, hi)
    ELSE lo

bisect_right(a, x) == BisectRightLoop(a, x, 0, Len(a))

bisect_left(a, x) == BisectLoop(a, x, 0, Len(a))

\* the index (0-based) color_select reads the palette at, for the draw r
SelectIndex(probabilities, palLen, r) ==
    LET i == bisect_left(probabilities, r)
    IN  IF i < palLen THEN i ELSE palLen - 1

\* color_select(probabilities, palette) with r = random.uniform(0, 1)
color_select(probabilities, pal, r) ==
    pal.colors[SelectIndex(probabilities, Len(pal.colors), r) + 1]

\* ------------------------------------------------------- the random module
\* one step of the generator
RngNext(s) == (5 * s + 3) % RngPeriod

\* the state after n draws
RECURSIVE RngAfter(_, _)
RngAfter(s, n) == IF n = 0 THEN s ELSE RngAfter(RngNext(s), n - 1)

\* random.randint(a, b) drawn from state s
randint(s, a, b) == a + (RngNext(s) * (b - a + 1)) \div RngPeriod

\* random.uniform(0, 1) drawn from state s, in units of 1/ProbUnit
uniform(s) == (RngNext(s) * ProbUnit) \div RngPeriod

\* ---------------------------------------------------------- randomized_grid
\* the assert removed, as python -O does
GridAssertStripped(scale) == TRUE

\* line 199
GridAssert(scale) == scale > 0

\* range(0, h, scale) and range(0, w, scale) raise for a zero step
RangeOk(scale) == scale # 0

\* whether range(0, n, scale) still holds the value i
InRange(i, n, scale) == scale > 0 /\ i < n

\* lines 206-208: the anchor of cell (i, j) for jitter (dy, dx)
GridAnchor(h, w, i, j, dy, dx) == <<PyMod(dy + i, h), PyMod(dx + j, w)>>

\* the loop indices after cell (i, j)
NextCell(w, scale, i, j) ==
    IF InRange(j + scale, w, scale) THEN <<i, j + scale>> ELSE <<i + scale, 0>>

\* random.shuffle(x): for i from len-1 down to 1, swap x[i] with x[js[i]],
\* js[i] in 0..i being the draw for position i (0-based positions)
RECURSIVE FisherYates(_, _, _)
FisherYates(x, js, i) ==
    IF i < 1 THEN x
    ELSE LET j == js[i]
             y == [x EXCEPT ![i + 1] = x[j + 1], ![j + 1] = x[i + 1]]
         IN  FisherYates(y, js, i - 1)

\* the draws random.shuffle makes from state s for a list of n entries:
\* position i is drawn after positions n-1 .. i+1
ShuffleDraws(s, n) ==
    [i \in 1..(n - 1) |-> (RngNext(RngAfter(s, n - 1 - i)) * (i + 1)) \div RngPeriod]

shuffle(x, s) == FisherYates(x, ShuffleDraws(s, Len(x)), Len(x) - 1)

\* ------------------------------------------------------------ the requests
\* Python values that reach create_pointillism through **custom_params
PyInt(n) == [type |-> "int", int |-> n, str |-> ""]
PyStr(t) == [type |-> "str", int |-> 0, str |-> t]

\* the decimal strings int() accepts, for the numbers a form of the model sends
DecimalString(n) ==
    IF n < 0 THEN "-1" ELSE <<"0", "1", "2", "3", "4", "5", "6", "7", "8", "9">>[n + 1]

FormNumbers == (0 - 1)..9

\* app.py lines 60-68: int(value) when value is a number, else the string
\* kept as it is (no value of the model holds a '.')
ConvertFormValue(value) ==
    IF \E n \in FormNumbers : DecimalString(n) = value
    THEN PyInt(CHOOSE n \in FormNumbers : DecimalString(n) = value)
    ELSE PyStr(value)

\* app.py lines 56-68: the parameter map built from the form
custom_params(form) ==
    [palette_size |-> ConvertFormValue(form.palette_size),
     grid_scale |-> ConvertFormValue(form.grid_scale),
     use_median_blur |-> ConvertFormValue(form.use_median_blur),
     seed |-> ConvertFormValue(form.seed)]

\* the uploaded bytes: an image PIL cannot open, or the RGB scan line it decodes to
Corrupt == <<>>
ScanLines == UNION {[1..n -> PixelColours] : n \in 1..MaxW}
ImageData == {Corrupt} \cup ScanLines

\* Image.open(io.BytesIO(image_data)) raises for bytes that are no image
Decodable(image_data) == image_data # Corrupt

\* lines 237-242: the decoded image as a BGR array
Decode(image_data) == [x \in 1..Len(image_data) |-> SwapRB(image_data[x])]

Forms ==
    [image : ImageData,
     palette_size : {DecimalString(n) : n \in 0..MaxK},
     grid_scale : {DecimalString(n) : n \in (0 - 1)..MaxS},
     use_median_blur : {"false", "0"},
     seed : {"7"}]

\* the requests two clients send at once in the threaded deployment
ThreadedForms ==
    {f \in Forms : /\ f.image \in {<<Black, Rust, Black>>, <<Rust, Black>>}
                   /\ f.palette_size = "1"
                   /\ f.grid_scale = "2"
                   /\ f.use_median_blur = "0"}

Procs == {1, 2}

\* --------------------------------------------------------------- the state
VARIABLES
    workers,     \* the threads of the server that take requests
    offered,     \* the forms clients send
    rng,         \* the state of the generator of Python's random module
    rngOwner,    \* the invocation that advanced rng last (0: none yet,
                 \* -1: an invocation that has ended, p: the one worker p runs)
    crossRead,   \* per worker: its invocation drew from a state another left
    pc,          \* per worker: where its request is
    form,        \* per worker: the form of its request
    params,      \* per worker: custom_params
    img,         \* per worker: the decoded source array (BGR)
    palette,     \* per worker: the ColorPalette
    result,      \* per worker: the canvas
    grid,        \* per worker: the anchors (row, column), 0-based
    cell,        \* per worker: the loop indices (i, j) of randomized_grid
    h,           \* per worker: the start of the current batch
    pixels,      \* per worker: the source colours of the batch anchors
    probs,       \* per worker: color_probabilities of the batch
    i,           \* per worker: the strokes drawn of the current batch
    sampled,     \* per worker: the colours of the strokes drawn so far
    response,    \* per worker: the image create_pointillism returned (RGB)
    error,       \* per worker: the error create_pointillism raised
    probe        \* inputs and results of a function checked on its own

vars == <<workers, offered, rng, rngOwner, crossRead, pc, form, params, img,
          palette, result, grid, cell, h, pixels, probs, i, sampled,
          response, error, probe>>

locals == <<form, params, img, palette, result, grid, cell, h, pixels, probs,
            i, sampled, response, error>>

\* the defaults of lines 229-234 for the keys no form of the model sends
color_randomness == 9
batch_size == 10000

\* the batch size of the run: line 276's, or the scaled-down one of a run
\* whose few anchors are to span several batches
BatchSize == IF probe.fn = "batch_size" THEN probe.batch_size ELSE batch_size

NoForm == [image |-> <<>>, palette_size |-> "", grid_scale |-> "",
           use_median_blur |-> "", seed |-> ""]
NoPalette == [colors |-> <<>>, base_len |-> 0]
NoImage == <<>>
NoError == ""

InitWith(ws, forms, seeds) ==
    /\ workers = ws
    /\ offered = forms
    /\ rng \in seeds
    /\ rngOwner = 0
    /\ crossRead = [p \in Procs |-> FALSE]
    /\ pc = [p \in Procs |-> "idle"]
    /\ form = [p \in Procs |-> NoForm]
    /\ params = [p \in Procs |-> custom_params(NoForm)]
    /\ img = [p \in Procs |-> <<>>]
    /\ palette = [p \in Procs |-> NoPalette]
    /\ result = [p \in Procs |-> <<>>]
    /\ grid = [p \in Procs |-> <<>>]
    /\ cell = [p \in Procs |-> <<0, 0>>]
    /\ h = [p \in Procs |-> 0]
    /\ pixels = [p \in Procs |-> <<>>]
    /\ probs = [p \in Procs |-> <<>>]
    /\ i = [p \in Procs |-> 0]
    /\ sampled = [p \in Procs |-> <<>>]
    /\ response = [p \in Procs |-> NoImage]
    /\ error = [p \in Procs |-> NoError]

\* one worker, every form, the generator in any state
Init == InitWith({1}, Forms, 0..(RngPeriod - 1)) /\ probe = [fn |-> "none"]

\* app.run: the development server handles each request in a thread of its own
InitThreaded == InitWith(Procs, ThreadedForms, 0..(RngPeriod - 1)) /\ probe = [fn |-> "none"]

\* the stage at which lines 229-273 fail for the form, "" when they do not
FailingStage(f) ==
    LET cp == custom_params(f)
    IN  IF ~Decodable(f.image) THEN "decode"
        ELSE IF ~(cp.palette_size.type = "int"
                  /\ KMeansFits(Decode(f.image), cp.palette_size.int))
        THEN "palette"
        ELSE IF ~(cp.grid_scale.type = "int" /\ GridAssert(cp.grid_scale.int))
        THEN "grid assert"
        ELSE IF ~RangeOk(cp.grid_scale.int) THEN "grid range"
        ELSE NoError

\* the error create_pointillism raises in its except clause (line 306)
Raise(p, stage) ==
    /\ pc' = [pc EXCEPT ![p] = "raised"]
    /\ error' = [error EXCEPT ![p] = stage]
    /\ response' = [response EXCEPT ![p] = NoImage]

\* the draw an invocation of worker p makes from the shared generator
Draw(p, n) ==
    /\ rng' = RngAfter(rng, n)
    /\ rngOwner' = IF n > 0 THEN p ELSE rngOwner
    /\ crossRead' = [crossRead EXCEPT
                        ![p] = @ \/ (n > 0 /\ rngOwner \notin {0, p})]

\* process_image (app.py lines 32-71) calls create_pointillism, which runs
\* lines 229-273 up to the loop of randomized_grid: parameters, decoding,
\* palette, canvas, and the assert and ranges of randomized_grid
Begin(p, f) ==
    /\ p \in workers
    /\ pc[p] = "idle"
    /\ f \in offered
    /\ form' = [form EXCEPT ![p] = f]
    /\ params' = [params EXCEPT ![p] = custom_params(f)]
    /\ IF FailingStage(f) # NoError
       THEN /\ Raise(p, FailingStage(f))
            /\ UNCHANGED <<img, palette, result, cell>>
       ELSE LET image == Decode(f.image)
                cp == custom_params(f)
                S == cp.grid_scale.int
            IN  /\ img' = [img EXCEPT ![p] = image]
                /\ palette' = [palette EXCEPT ![p] =
                       extend(from_image(image, cp.palette_size.int), Extensions)]
                /\ result' = [result EXCEPT ![p] = BaseImage(image, cp.use_median_blur)]
                /\ cell' = [cell EXCEPT ![p] = <<0, 0>>]
                /\ pc' = [pc EXCEPT ![p] =
                       IF InRange(0, 1, S) /\ InRange(0, Len(image), S)
                       THEN "grid" ELSE "shuffle"]
                /\ UNCHANGED <<response, error>>
    /\ UNCHANGED <<workers, offered, rng, rngOwner, crossRead, grid, h, pixels,
                   probs, i, sampled, probe>>

\* one pass of the inner loop of randomized_grid (lines 205-208)
GridCell(p) ==
    /\ pc[p] = "grid"
    /\ LET S == params[p].grid_scale.int
           r == S \div 2
           dy == randint(rng, 0 - r, r)
           dx == randint(RngNext(rng), 0 - r, r)
           W == Len(img[p])
           nxt == NextCell(W, S, cell[p][1], cell[p][2])
       IN  /\ grid' = [grid EXCEPT ![p] =
                  Append(@, GridAnchor(1, W, cell[p][1], cell[p][2], dy, dx))]
           /\ cell' = [cell EXCEPT ![p] = nxt]
           /\ pc' = [pc EXCEPT ![p] = IF InRange(nxt[1], 1, S) THEN "grid" ELSE "shuffle"]
    /\ Draw(p, 2)
    /\ UNCHANGED <<workers, offered, form, params, img, palette, result, h,
                   pixels, probs, i, sampled, response, error, probe>>

\* random.shuffle(grid) and the return of randomized_grid (lines 210-211),
\* then line 276
Shuffle(p) ==
    /\ pc[p] = "shuffle"
    /\ grid' = [grid EXCEPT ![p] = shuffle(@, rng)]
    /\ Draw(p, Max2(Len(grid[p]) - 1, 0))
    /\ h' = [h EXCEPT ![p] = 0]
    /\ pc' = [pc EXCEPT ![p] = IF Len(grid[p]) = 0 THEN "return" ELSE "batch"]
    /\ UNCHANGED <<workers, offered, form, params, img, palette, result, cell,
                   pixels, probs, i, sampled, response, error, probe>>

\* the anchor colours read from the canvas being painted
AnchorPixelsFromCanvas(image, canvas, batch_grid) ==
    [n \in 1..Len(batch_grid) |-> canvas[batch_grid[n][2] + 1]]

\* line 283: the colours at the anchors of the batch
AnchorPixels(image, canvas, batch_grid) ==
    [n \in 1..Len(batch_grid) |-> image[batch_grid[n][2] + 1]]

\* grid[h:batch_end] of lines 279-280
\* a batch that ignores where it starts: every pass takes the head of the grid
BatchGridFromHead(g, start) == SubSeq(g, 1, Min2(BatchSize, Len(g)))

BatchGrid(g, start) == SubSeq(g, start + 1, Min2(start + BatchSize, Len(g)))

\* the head of one pass of the batch loop (lines 278-286)
Batch(p) ==
    /\ pc[p] = "batch"
    /\ LET px == AnchorPixels(img[p], result[p], BatchGrid(grid[p], h[p]))
       IN  /\ pixels' = [pixels EXCEPT ![p] = px]
           /\ probs' = [probs EXCEPT ![p] =
                  compute_color_probabilities(px, palette[p], color_randomness)]
    /\ i' = [i EXCEPT ![p] = 0]
    /\ pc' = [pc EXCEPT ![p] = "stroke"]
    /\ UNCHANGED <<workers, offered, rng, rngOwner, crossRead, form, params, img,
                   palette, result, grid, cell, h, sampled, response, error, probe>>

\* one stroke (lines 289-299)
Stroke(p) ==
    /\ pc[p] = "stroke"
    /\ LET n == i[p] + 1
           anchor == BatchGrid(grid[p], h[p])[n]
           color == color_select(probs[p][n], palette[p], uniform(rng))
           scale == AutoStrokeScale(1, Len(img[p]))
           more == h[p] + BatchSize < Len(grid[p])
       IN  /\ result' = [result EXCEPT ![p] = ellipse(@, anchor[2] + 1, scale, color)]
           /\ sampled' = [sampled EXCEPT ![p] = Append(@, color)]
           /\ i' = [i EXCEPT ![p] = n]
           /\ IF n < Len(pixels[p])
              THEN UNCHANGED <<pc, h>>
              ELSE /\ h' = [h EXCEPT ![p] = IF more THEN @ + BatchSize ELSE @]
                   /\ pc' = [pc EXCEPT ![p] = IF more THEN "batch" ELSE "return"]
    /\ Draw(p, 1)
    /\ UNCHANGED <<workers, offered, form, params, img, palette, grid, cell,
                   pixels, probs, response, error, probe>>

\* lines 302-303: the canvas converted to RGB and returned
Return(p) ==
    /\ pc[p] = "return"
    /\ response' = [response EXCEPT ![p] = [x \in 1..Len(result[p]) |-> SwapRB(result[p][x])]]
    /\ pc' = [pc EXCEPT ![p] = "returned"]
    /\ UNCHANGED <<workers, offered, rng, rngOwner, crossRead, form, params, img,
                   palette, result, grid, cell, h, pixels, probs, i, sampled,
                   error, probe>>

\* process_image answers (app.py lines 73-88) and the invocation is over
Respond(p) ==
    /\ pc[p] \in {"returned", "raised"}
    /\ pc' = [pc EXCEPT ![p] = "idle"]
    /\ form' = [form EXCEPT ![p] = NoForm]
    /\ params' = [params EXCEPT ![p] = custom_params(NoForm)]
    /\ img' = [img EXCEPT ![p] = <<>>]
    /\ palette' = [palette EXCEPT ![p] = NoPalette]
    /\ result' = [result EXCEPT ![p] = <<>>]
    /\ grid' = [grid EXCEPT ![p] = <<>>]
    /\ cell' = [cell EXCEPT ![p] = <<0, 0>>]
    /\ h' = [h EXCEPT ![p] = 0]
    /\ pixels' = [pixels EXCEPT ![p] = <<>>]
    /\ probs' = [probs EXCEPT ![p] = <<>>]
    /\ i' = [i EXCEPT ![p] = 0]
    /\ sampled' = [sampled EXCEPT ![p] = <<>>]
    /\ response' = [response EXCEPT ![p] = NoImage]
    /\ error' = [error EXCEPT ![p] = NoError]
    /\ rngOwner' = IF rngOwner = p THEN 0 - 1 ELSE rngOwner
    /\ crossRead' = [crossRead EXCEPT ![p] = FALSE]
    /\ UNCHANGED <<workers, offered, rng, probe>>

Next ==
    \E p \in Procs :
        \/ \E f \in Forms : Begin(p, f)
        \/ GridCell(p)
        \/ Shuffle(p)
        \/ Batch(p)
        \/ Stroke(p)
        \/ Return(p)
        \/ Respond(p)

Spec == Init /\ [][Next]_vars

SpecThreaded == InitThreaded /\ [][Next]_vars

\* the same program with the batch size scaled down, so that the anchors of
\* a small image span several passes of the loop of line 278
BatchedForms ==
    {f \in Forms : /\ f.image \in ScanLines /\ Len(f.image) >= 2
                   /\ f.palette_size \in {"1", "2"}
                   /\ f.grid_scale = "1"
                   /\ f.use_median_blur = "0"}

InitBatched ==
    /\ InitWith({1}, BatchedForms, 0..(RngPeriod - 1))
    /\ probe \in [fn : {"batch_size"}, batch_size : 1..MaxBatch]

SpecBatched == InitBatched /\ [][Next]_vars

\* ------------------------------------- randomized_grid(h, w, scale) alone
program == <<workers, offered, rng, rngOwner, crossRead, pc, form, params, img,
             palette, result, grid, cell, h, pixels, probs, i, sampled,
             response, error>>

InitGrid ==
    /\ InitWith({}, {}, {0})
    /\ probe \in [fn : {"randomized_grid"}, h : 1..MaxH, w : 1..MaxW,
                  scale : 1..MaxGridScale, i : {0}, j : {0}, grid : {<<>>},
                  stage : {"loop"}]

\* one pass of the inner loop, for any jitter randint(-r, r) can return
ProbeGridCell ==
    /\ probe.fn = "randomized_grid"
    /\ probe.stage = "loop"
    /\ \E dy, dx \in (0 - (probe.scale \div 2))..(probe.scale \div 2) :
           LET nxt == NextCell(probe.w, probe.scale, probe.i, probe.j)
           IN  probe' = [probe EXCEPT
                   !.grid = Append(@, GridAnchor(probe.h, probe.w, probe.i, probe.j, dy, dx)),
                   !.i = nxt[1],
                   !.j = nxt[2],
                   !.stage = IF InRange(nxt[1], probe.h, probe.scale)
                             THEN "loop" ELSE "shuffle"]
    /\ UNCHANGED program

\* random.shuffle(grid), from any state of the generator
ProbeShuffle ==
    /\ probe.fn = "randomized_grid"
    /\ probe.stage = "shuffle"
    /\ \E s \in 0..(RngPeriod - 1) :
           probe' = [probe EXCEPT !.grid = shuffle(@, s), !.stage = "done"]
    /\ UNCHANGED program

NextGrid == ProbeGridCell \/ ProbeShuffle

SpecGrid == InitGrid /\ [][NextGrid]_vars

\* C3: randomized_grid(H, W, S) returns ceil(H/S) * ceil(W/S) anchors, each
\* with 0 <= row < H and 0 <= col < W, whatever the jitter.
C3_GridCountAndRange ==
    probe.fn = "randomized_grid" =>
        /\ \A n \in 1..Len(probe.grid) :
               /\ 0 <= probe.grid[n][1] /\ probe.grid[n][1] < probe.h
               /\ 0 <= probe.grid[n][2] /\ probe.grid[n][2] < probe.w
        /\ probe.stage \in {"shuffle", "done"} =>
               Len(probe.grid) = CeilDiv(probe.h, probe.scale) * CeilDiv(probe.w, probe.scale)

C3_Witness ==
    /\ probe.fn = "randomized_grid"
    /\ probe.stage = "done"
    /\ probe.scale > probe.h
    /\ probe.scale > probe.w
    /\ probe.h >= 2
    /\ probe.w >= 2
    /\ \E n \in 1..Len(probe.grid) :
           probe.grid[n][1] = probe.h - 1 /\ probe.grid[n][2] = probe.w - 1

\* ------------------------------------ color_select(probabilities, palette)
\* a palette of P distinct colours
ProbePalette(P) == [colors |-> [j \in 1..P |-> <<j, j, j>>], base_len |-> P]

NonDecreasing(a) == \A j \in 1..(Len(a) - 1) : a[j] <= a[j + 1]

InitSelect ==
    /\ InitWith({}, {}, {0})
    /\ probe \in [fn : {"color_select"},
                  probabilities : {a \in UNION {[1..n -> 0..MaxCum] : n \in 1..MaxLen} :
                                       NonDecreasing(a)},
                  r : 0..(MaxCum + 1), chosen : {<<>>}, stage : {"call"}]

ProbeSelect ==
    /\ probe.fn = "color_select"
    /\ probe.stage = "call"
    /\ probe' = [probe EXCEPT
           !.chosen = color_select(probe.probabilities,
                                   ProbePalette(Len(probe.probabilities)), probe.r),
           !.stage = "done"]
    /\ UNCHANGED program

NextSelect == ProbeSelect

SpecSelect == InitSelect /\ [][NextSelect]_vars

\* C6: for a non-decreasing cumulative array and a draw r, color_select
\* returns the palette entry at the smallest index whose cumulative value is
\* >= r, the last entry when there is none, and reads no index outside the
\* palette.
C6_FirstIndexAtLeastR ==
    (probe.fn = "color_select" /\ probe.stage = "done") =>
        LET a == probe.probabilities
            P == Len(a)
            hits == {j \in 1..P : a[j] >= probe.r}
            first == CHOOSE j \in hits : \A k \in hits : j <= k
            idx == SelectIndex(a, P, probe.r)
        IN  /\ 0 <= idx /\ idx < P
            /\ probe.chosen = IF hits = {} THEN ProbePalette(P).colors[P]
                              ELSE ProbePalette(P).colors[first]

C6_Witness ==
    /\ probe.fn = "color_select"
    /\ probe.stage = "done"
    /\ Len(probe.probabilities) = 3
    /\ probe.probabilities[1] < probe.r
    /\ probe.probabilities[2] = probe.r
    /\ probe.probabilities[3] = probe.r
    /\ probe.chosen = <<2, 2, 2>>

\* --------------------------------- regulate(img, hue, saturation, luminosity)
\* the 8-bit levels a channel of the colour takes, and the offsets: those of
\* the extensions of line 260 and a luminosity offset besides
ChannelLevels == {0, 20, 40, 128, 200, 255}
HueOffsets == {0 - 15, 0, 15}
SaturationOffsets == {0, 30, 50}
LuminosityOffsets == {0, 30}

InitRegulate ==
    /\ InitWith({}, {}, {0})
    /\ probe \in [fn : {"regulate"},
                  color : ChannelLevels \X ChannelLevels \X ChannelLevels,
                  hue : HueOffsets, saturation : SaturationOffsets,
                  luminosity : LuminosityOffsets,
                  hsv : {<<>>}, shifted : {<<>>}, out : {<<>>}, stage : {"call"}]

ProbeRegulate ==
    /\ probe.fn = "regulate"
    /\ probe.stage = "call"
    /\ LET hsv == BGR2HSV_FULL(probe.color)
       IN  probe' = [probe EXCEPT
               !.hsv = hsv,
               !.shifted = regulateHSV(hsv, probe.hue, probe.saturation, probe.luminosity),
               !.out = regulate(probe.color, probe.hue, probe.saturation, probe.luminosity),
               !.stage = "done"]
    /\ UNCHANGED program

NextRegulate == ProbeRegulate

SpecRegulate == InitRegulate /\ [][NextRegulate]_vars

\* C12: the saturation and value channels of a variant colour are the
\* clamped sums min(255, max(0, c + d)); the addition never wraps.
C12_SaturationValueClamped ==
    (probe.fn = "regulate" /\ probe.stage = "done") =>
        /\ probe.shifted[2] = Clip(probe.hsv[2] + probe.saturation, 0, 255)
        /\ probe.shifted[3] = Clip(probe.hsv[3] + probe.luminosity, 0, 255)

\* C13: the hue channel of a variant colour is (base hue + hue offset)
\* modulo 256, for negative offsets as for the others.
C13_HueShiftModulo256 ==
    (probe.fn = "regulate" /\ probe.stage = "done") =>
        probe.shifted[1] = (probe.hsv[1] + probe.hue) % 256

\* ------------------------------------------------------------------ claims
Running(p) == pc[p] \in {"grid", "shuffle", "batch", "stroke", "return", "returned"}
PaletteSize(p) == params[p].palette_size.int
GridScale(p) == params[p].grid_scale.int
Source(p) == Decode(form[p].image)
StrokeScale(p) == AutoStrokeScale(1, Len(img[p]))

\* C1: two runs with identical image bytes, identical parameters and the
\* same seed produce identical output.
C1_SameInputsSameOutput ==
    \A p, q \in Procs :
        (pc[p] = "returned" /\ pc[q] = "returned" /\ form[p] = form[q])
            => response[p] = response[q]

\* C2: create_pointillism either returns a complete image (one stroke drawn
\* for every anchor of the grid, the canvas converted) or raises one error
\* and returns nothing; it raises whenever the bytes cannot be decoded,
\* palette_size < 1 or grid_scale < 1.
InvalidInput(f) ==
    \/ ~Decodable(f.image)
    \/ custom_params(f).palette_size.int < 1
    \/ custom_params(f).grid_scale.int < 1

Complete(p) ==
    /\ Len(response[p]) = Len(Source(p))
    /\ Len(grid[p]) = CeilDiv(Len(Source(p)), GridScale(p))
    /\ Len(sampled[p]) = Len(grid[p])
    /\ response[p] = [x \in 1..Len(result[p]) |-> SwapRB(result[p][x])]

IsCumulative(row, P) ==
    /\ Len(row) = P
    /\ \A j \in 1..Len(row) : row[j] # NaN /\ 0 <= row[j] /\ row[j] <= ProbUnit
    /\ \A j \in 1..(Len(row) - 1) : row[j] <= row[j + 1]
    /\ Abs(row[Len(row)] - ProbUnit) <= 1

C4_RowsAreCumulative ==
    \A p \in Procs :
        pc[p] = "stroke" =>
            \A n \in 1..Len(probs[p]) : IsCumulative(probs[p][n], Len(palette[p].colors))

\* C5: when the sum of the affinities of an anchor is zero, no division by
\* it takes place: the run has raised, or the row is a defined distribution.
ZeroNormalizer(pixel, colors) == SumSeq(Affinities(pixel, colors)) = 0

C5_ZeroNormalizerGuarded ==
    \A p \in Procs :
        pc[p] = "stroke" =>
            \A n \in 1..Len(pixels[p]) :
                ZeroNormalizer(pixels[p][n], palette[p].colors)
                    => \A j \in 1..Len(probs[p][n]) : probs[p][n][j] # NaN

\* C7 as stated: after all strokes, a pixel some stroke covers holds exactly
\* the colour of the last stroke covering it, and a pixel no stroke covers
\* holds its initial value.
Touches(p, m, x) ==
    x \in SolidSpan(Len(result[p]), grid[p][m][2] + 1, StrokeScale(p))
          \cup RimSpan(Len(result[p]), grid[p][m][2] + 1, StrokeScale(p))

Fills(p, m, x) == x \in SolidSpan(Len(result[p]), grid[p][m][2] + 1, StrokeScale(p))

InitialCanvas(p) == BaseImage(Source(p), params[p].use_median_blur)

LastOf(S) == CHOOSE m \in S : \A k \in S : k <= m

RECURSIVE Painted(_, _, _)
Painted(p, x, m) ==
    IF m = 0 THEN InitialCanvas(p)[x]
    ELSE IF Fills(p, m, x) THEN sampled[p][m]
    ELSE IF Touches(p, m, x) THEN Blend(Painted(p, x, m - 1), sampled[p][m])
    ELSE Painted(p, x, m - 1)

C8_PaletteLengths ==
    \A p \in Procs :
        Running(p) =>
            LET K == PaletteSize(p)
                base == from_image(img[p], K)
            IN  /\ base.base_len = K
                /\ palette[p].base_len = K
                /\ palette[p].base_len <= Len(palette[p].colors)
                /\ Len(palette[p].colors) = 4 * K
                /\ SubSeq(palette[p].colors, 1, K) = base.colors
                /\ \A n \in 0..Len(Extensions) :
                       LET e == extend(base, SubSeq(Extensions, 1, n))
                       IN  /\ e.base_len = K
                           /\ e.base_len <= Len(e.colors)
                           /\ Len(e.colors) = e.base_len * (1 + n)

C8_Witness ==
    /\ pc[1] = "stroke"
    /\ PaletteSize(1) = 2
    /\ Len(palette[1].colors) = 8
    /\ palette[1].colors[1] # palette[1].colors[2]

\* C9: no state written during one create_pointillism call is read by
\* another: no invocation draws from a generator state another one left.
C9_NoSharedState == \A p \in Procs : ~crossRead[p]

\* C10: the decoded source is only read: it stays what was decoded while the
\* strokes go to the canvas, and the colour each anchor is sampled from is
\* the source colour at the anchor, whatever has been painted.
C10_SourceOnlyRead ==
    \A p \in Procs :
        /\ Running(p) => img[p] = Source(p)
        /\ pc[p] = "stroke" =>
               LET src == [n \in 1..Len(BatchGrid(grid[p], h[p])) |->
                              Source(p)[BatchGrid(grid[p], h[p])[n][2] + 1]]
               IN  /\ pixels[p] = src
                   /\ probs[p] = compute_color_probabilities(src, palette[p], color_randomness)

C10_Witness ==
    /\ pc[1] = "stroke"
    /\ i[1] >= 1
    /\ LET x == BatchGrid(grid[1], h[1])[i[1] + 1][2] + 1
       IN  /\ result[1][x] # img[1][x]
           /\ pixels[1][i[1] + 1] = img[1][x]

\* C11: whatever the batch size, every stroke drawn is the stroke of the
\* next anchor of the grid in the order randomized_grid returned, its colour
\* is selected from the distribution computed from that anchor's own source
\* colour, and the loop ends only when every anchor has had its one stroke.
OwnRow(p, n) ==
    ProbabilityRow(Source(p)[grid[p][n][2] + 1], palette[p].colors, color_randomness)

StrokeDrawn(p) == Len(sampled'[p]) > Len(sampled[p])

C11_OneStrokePerAnchorInOrder ==
    [][\A p \in Procs :
          /\ StrokeDrawn(p) =>
                 LET n == Len(sampled[p]) + 1
                     color == color_select(OwnRow(p, n), palette[p], uniform(rng))
                 IN  /\ n <= Len(grid[p])
                     /\ n = h[p] + i[p] + 1
                     /\ probs[p][i[p] + 1] = OwnRow(p, n)
                     /\ sampled'[p] = Append(sampled[p], color)
                     /\ result'[p] = ellipse(result[p], grid[p][n][2] + 1,
                                             StrokeScale(p), color)
          /\ (pc[p] = "stroke" /\ pc'[p] = "return") =>
                 Len(sampled'[p]) = Len(grid[p])
          /\ (pc[p] = "stroke" /\ pc'[p] = "batch") =>
                 Len(sampled'[p]) = h'[p] /\ h'[p] < Len(grid[p])]_vars

C11_Witness ==
    /\ probe.fn = "batch_size"
    /\ probe.batch_size = 2
    /\ pc[1] = "returned"
    /\ Len(grid[1]) = 3
    /\ h[1] = 2
    /\ Len(sampled[1]) = 3
    /\ grid[1][1] # grid[1][3]
    /\ sampled[1][2] # sampled[1][3]

\* C14: the canvas starts as the unfiltered copy of the source when the
\* request carries a false value for use_median_blur, and as the
\* median-filtered copy when it carries a true one.
FalseSpellings == {"false", "False", "0", ""}

C14_FalseSeedsUnfiltered ==
    \A p \in Procs :
        (pc[p] \in {"grid", "shuffle", "batch"} /\ sampled[p] = <<>>) =>
            result[p] = IF form[p].use_median_blur \in FalseSpellings
                        THEN img[p]
                        ELSE medianBlur(img[p])

====
